---- MODULE Spec2Model ----
(***************************************************************************)
(* Model of backend/main.py: the conversation and message request handlers *)
(* of the chat backend, the relational store they write to, and the LLM    *)
(* adapter call made inline by create_message.                             *)
(*                                                                         *)
(* Request handlers run in the server's worker threads.  Every handler but *)
(* create_message is one store transaction and is one action.              *)
(* create_message is split at its commits and at the blocking LLM call:    *)
(*   lookup -> persist user -> reload history -> LLM call -> persist reply *)
(* Spec runs one request at a time, with every input.  SpecConc interleaves *)
(* the creations, posts and deletes of two workers, SpecPosts creations    *)
(* and posts only.                                                         *)
(***************************************************************************)
EXTENDS Integers, Sequences, FiniteSets, TLC

\* ---------------------------------------------------------------- bounds
MaxReqs == 4     \* requests served in one run
MaxCid == 2      \* requests address conversation ids 1..MaxCid

Workers == {1, 2}
CIds == 1 .. MaxCid

\* ---------------------------------------------------------------- inputs
None == "<None>"                       \* Python's None for an optional text
Titles == {None, "", "Trip"}
Roles == {"user", "assistant", "system"}
Contents == {"Hi"}
BodyCids == {0, MaxCid}                \* conversation_id of the request body, 0: absent

\* What client.chat.completions.create can do: return a response read
\* attribute-style, one read mapping-style, one neither way, or raise.
LLMOutcomes == {"attr", "mapping", "raw", "raise"}
ReplyText == "Hello!"
RawDump == "ChatCompletion(...)"
ErrorText == "Connection error."

VARIABLES
    API_KEY,        \* whether NRP_API_KEY was set at process start
    conversations,  \* table Conversation: id -> title
    messages,       \* table Message: set of rows
    nextConvId,     \* next Conversation.id the store assigns
    nextMsgId,      \* next Message.id / created_at the store assigns
    req,            \* per worker: the create_message request it is handling
    last,           \* the response most recently returned, with what was supplied
    served,         \* number of requests received
    adapter,        \* calls of the LLM adapter, and the payload of the last one
    accepted        \* per conversation: posts that passed the existence lookup

vars == <<API_KEY, conversations, messages, nextConvId, nextMsgId, req, last,
          served, adapter, accepted>>

store == <<conversations, messages, nextConvId, nextMsgId>>

NoMsg == [id |-> 0, conversation_id |-> 0, role |-> "", content |-> "", created_at |-> 0]
NoConv == [id |-> 0, title |-> None]
NoBody == [conversation_id |-> 0, role |-> "", content |-> ""]
Idle == [pc |-> "idle", conversation_id |-> 0, body |-> NoBody, message |-> NoMsg,
         history |-> <<>>, llm_messages |-> <<>>, assistant_text |-> ""]

Response(seq, op, cid, status) ==
    [seq |-> seq, op |-> op, conversation_id |-> cid, status |-> status,
     supplied |-> None, conversation |-> NoConv, messages |-> <<>>, user |-> NoMsg, assistant |-> NoMsg]

\* ----------------------------------------------------------------- store
\* session.get(Conversation, id): the row, or nothing.
Exists(convs, id) == id \in DOMAIN convs

\* session.add(conversation); commit: a row with a fresh id.
StoreInsertConversation(convs, id, title) ==
    [i \in DOMAIN convs \cup {id} |-> IF i = id THEN title ELSE convs[i]]

\* session.add(message); commit; refresh: the store assigns id and created_at,
\* and does not look at whether conversation_id names a row.
NewMessage(id, cid, role, content) ==
    [id |-> id, conversation_id |-> cid, role |-> role, content |-> content,
     created_at |-> id]

StoreInsertMessage(msgs, row) == msgs \cup {row}

\* Removing a conversation removes the messages it owns.
CascadeDelete(msgs, id) == {m \in msgs : m.conversation_id # id}

\* ORDER BY created_at: the row at place i has i - 1 rows before it (the
\* store never assigns a created_at twice).
OrderByCreatedAt(rows) ==
    [i \in 1 .. Cardinality(rows) |->
        CHOOSE m \in rows :
            Cardinality({o \in rows : o.created_at < m.created_at}) = i - 1]

OrderByCreatedAtDesc(rows) ==
    [i \in 1 .. Cardinality(rows) |->
        CHOOSE m \in rows :
            Cardinality({o \in rows : o.created_at > m.created_at}) = i - 1]

\* The query with its ordering reversed.
SelectMessagesDesc(msgs, id) ==
    OrderByCreatedAtDesc({m \in msgs : m.conversation_id = id})

\* select(Message).where(conversation_id == id).order_by(created_at)
SelectMessages(msgs, id) ==
    OrderByCreatedAt({m \in msgs : m.conversation_id = id})

\* ----------------------------------------------------------- conversions
DefaultTitle(id) == "Conversation " \o ToString(id)

\* The test `conversation.title is None`, which an empty title passes.
TitleIsNone(title) == title = None

\* `not conversation.title`
TitleMissing(title) == title = None \/ title = ""

ResolveTitle(title, id) == IF TitleMissing(title) THEN DefaultTitle(id) ELSE title

\* The role passed through as stored.
LLMRoleStored(role) == role

LLMRole(role) == IF role \in {"user", "assistant"} THEN role ELSE "user"

LLMMessages(history) ==
    [i \in 1 .. Len(history) |->
        [role |-> LLMRole(history[i].role), content |-> history[i].content]]

\* The conversation_id of the request body kept.
BodyConversationId(path_cid, body_cid) == body_cid

\* message.conversation_id = conversation_id
LinkedConversationId(path_cid, body_cid) == path_cid

\* The call made whether or not a key was loaded.
LLMAlwaysCalled(key) == TRUE

\* `openai is not None and API_KEY`
LLMConfigured(key) == key

ExtractText(outcome) ==
    CASE outcome = "attr" -> ReplyText
      [] outcome = "mapping" -> ReplyText
      [] outcome = "raw" -> RawDump
      [] outcome = "raise" -> "[LLM error] " \o ErrorText

\* ------------------------------------------------------------------ init
Init ==
    /\ API_KEY \in BOOLEAN
    /\ conversations = << >>
    /\ messages = {}
    /\ nextConvId = 1
    /\ nextMsgId = 1
    /\ req = [w \in Workers |-> Idle]
    /\ last = Response(0, "none", 0, 0)
    /\ served = 0
    /\ adapter = [calls |-> 0, payload |-> <<>>, outcome |-> "none"]
    /\ accepted = << >>

\* A worker takes a request: its own slot is free; without concurrency no
\* other request is in flight either.
CanStart(w, conc) ==
    /\ served < MaxReqs
    /\ req[w].pc = "idle"
    /\ conc \/ \A v \in Workers : req[v].pc = "idle"

\* -------------------------------------------------------------- handlers
create_conversation(w, conc, title) ==
    /\ CanStart(w, conc)
    /\ LET id == nextConvId
           final == ResolveTitle(title, id)
       IN /\ conversations' = StoreInsertConversation(conversations, id, final)
          /\ nextConvId' = id + 1
          /\ accepted' = [i \in DOMAIN accepted \cup {id} |->
                             IF i = id THEN 0 ELSE accepted[i]]
          /\ last' = [Response(served + 1, "create_conversation", id, 200)
                        EXCEPT !.supplied = title,
                               !.conversation = [id |-> id, title |-> final]]
    /\ served' = served + 1
    /\ UNCHANGED <<API_KEY, messages, nextMsgId, req, adapter>>

read_conversation(w, conc, id) ==
    /\ CanStart(w, conc)
    /\ last' = IF Exists(conversations, id)
               THEN [Response(served + 1, "read_conversation", id, 200)
                       EXCEPT !.conversation = [id |-> id, title |-> conversations[id]]]
               ELSE Response(served + 1, "read_conversation", id, 404)
    /\ served' = served + 1
    /\ UNCHANGED <<API_KEY, store, req, adapter, accepted>>

\* delete_conversation answering ok without its delete reaching the store.
delete_conversation_uncommitted(w, conc, id) ==
    /\ CanStart(w, conc)
    /\ last' = IF Exists(conversations, id)
               THEN Response(served + 1, "delete_conversation", id, 200)
               ELSE Response(served + 1, "delete_conversation", id, 404)
    /\ served' = served + 1
    /\ UNCHANGED <<API_KEY, store, req, adapter, accepted>>

delete_conversation(w, conc, id) ==
    /\ CanStart(w, conc)
    /\ IF Exists(conversations, id)
       THEN /\ conversations' = [i \in DOMAIN conversations \ {id} |-> conversations[i]]
            /\ messages' = CascadeDelete(messages, id)
            /\ accepted' = [i \in DOMAIN accepted \ {id} |-> accepted[i]]
            /\ last' = Response(served + 1, "delete_conversation", id, 200)
       ELSE /\ last' = Response(served + 1, "delete_conversation", id, 404)
            /\ UNCHANGED <<conversations, messages, accepted>>
    /\ served' = served + 1
    /\ UNCHANGED <<API_KEY, nextConvId, nextMsgId, req, adapter>>

read_conversation_messages(w, conc, id) ==
    /\ CanStart(w, conc)
    /\ last' = IF Exists(conversations, id)
               THEN [Response(served + 1, "read_conversation_messages", id, 200)
                       EXCEPT !.messages = SelectMessages(messages, id)]
               ELSE Response(served + 1, "read_conversation_messages", id, 404)
    /\ served' = served + 1
    /\ UNCHANGED <<API_KEY, store, req, adapter, accepted>>

\* create_message without its existence lookup.
create_message_unchecked(w, conc, id, role, content, body_cid) ==
    /\ CanStart(w, conc)
    /\ req' = [req EXCEPT ![w] =
                 [Idle EXCEPT !.pc = "persist_user",
                              !.conversation_id = id,
                              !.body = [conversation_id |-> body_cid,
                                        role |-> role, content |-> content]]]
    /\ accepted' = IF id \in DOMAIN accepted
                   THEN [accepted EXCEPT ![id] = @ + 1] ELSE accepted
    /\ served' = served + 1
    /\ UNCHANGED <<API_KEY, store, adapter, last>>

\* POST /conversations/{id}/messages: the existence lookup.
create_message(w, conc, id, role, content, body_cid) ==
    /\ CanStart(w, conc)
    /\ IF Exists(conversations, id)
       THEN /\ req' = [req EXCEPT ![w] =
                         [Idle EXCEPT !.pc = "persist_user",
                                      !.conversation_id = id,
                                      !.body = [conversation_id |-> body_cid,
                                                role |-> role, content |-> content]]]
            /\ accepted' = [accepted EXCEPT ![id] = @ + 1]
            /\ UNCHANGED last
       ELSE /\ last' = Response(served + 1, "create_message", id, 404)
            /\ UNCHANGED <<req, accepted>>
    /\ served' = served + 1
    /\ UNCHANGED <<API_KEY, store, adapter>>

\* The user message is linked to the conversation of the path and persisted.
persist_user(w) ==
    /\ req[w].pc = "persist_user"
    /\ LET r == req[w]
           row == NewMessage(nextMsgId,
                             LinkedConversationId(r.conversation_id, r.body.conversation_id),
                             r.body.role, r.body.content)
       IN /\ messages' = StoreInsertMessage(messages, row)
          /\ req' = [req EXCEPT ![w].pc = "load_history", ![w].message = row]
    /\ nextMsgId' = nextMsgId + 1
    /\ UNCHANGED <<API_KEY, conversations, nextConvId, last, served, adapter, accepted>>

\* The conversation's history is read back and mapped for the LLM.
load_history(w) ==
    /\ req[w].pc = "load_history"
    /\ \E history \in {SelectMessages(messages, req[w].conversation_id)} :
          req' = [req EXCEPT ![w].pc = "call_llm",
                             ![w].history = history,
                             ![w].llm_messages = LLMMessages(history)]
    /\ UNCHANGED <<API_KEY, store, last, served, adapter, accepted>>

\* call_llm without the try/except around the adapter call: the exception
\* leaves the handler and the request fails.
call_llm_uncaught(w) ==
    /\ req[w].pc = "call_llm"
    /\ IF LLMConfigured(API_KEY)
       THEN \E outcome \in LLMOutcomes :
               /\ adapter' = [calls |-> adapter.calls + 1,
                              payload |-> req[w].llm_messages,
                              outcome |-> outcome]
               /\ IF outcome = "raise"
                  THEN /\ req' = [req EXCEPT ![w] = Idle]
                       /\ last' = Response(served, "create_message",
                                           req[w].conversation_id, 500)
                  ELSE /\ req' = [req EXCEPT ![w].pc = "persist_assistant",
                                             ![w].assistant_text = ExtractText(outcome)]
                       /\ UNCHANGED last
       ELSE /\ req' = [req EXCEPT ![w].pc = "persist_assistant",
                                  ![w].assistant_text = "[LLM not configured]"]
            /\ UNCHANGED <<adapter, last>>
    /\ UNCHANGED <<API_KEY, store, served, accepted>>

\* The blocking chat completion, or the placeholder when no key is configured.
call_llm(w) ==
    /\ req[w].pc = "call_llm"
    /\ IF LLMConfigured(API_KEY)
       THEN \E outcome \in LLMOutcomes :
               /\ adapter' = [calls |-> adapter.calls + 1,
                              payload |-> req[w].llm_messages,
                              outcome |-> outcome]
               /\ req' = [req EXCEPT ![w].pc = "persist_assistant",
                                     ![w].assistant_text = ExtractText(outcome)]
       ELSE /\ req' = [req EXCEPT ![w].pc = "persist_assistant",
                                  ![w].assistant_text = "[LLM not configured]"]
            /\ UNCHANGED adapter
    /\ UNCHANGED <<API_KEY, store, last, served, accepted>>

\* persist_assistant with the commit of the reply left out.
persist_assistant_uncommitted(w) ==
    /\ req[w].pc = "persist_assistant"
    /\ LET r == req[w]
           row == NewMessage(nextMsgId, r.conversation_id, "assistant", r.assistant_text)
       IN last' = [Response(served, "create_message", r.conversation_id, 200)
                     EXCEPT !.supplied = r.body.role,
                            !.user = r.message, !.assistant = row]
    /\ req' = [req EXCEPT ![w] = Idle]
    /\ UNCHANGED <<API_KEY, store, served, adapter, accepted>>

\* The assistant reply is persisted and both messages are returned.
persist_assistant(w) ==
    /\ req[w].pc = "persist_assistant"
    /\ LET r == req[w]
           row == NewMessage(nextMsgId, r.conversation_id, "assistant", r.assistant_text)
       IN /\ messages' = StoreInsertMessage(messages, row)
          /\ last' = [Response(served, "create_message", r.conversation_id, 200)
                        EXCEPT !.supplied = r.body.role,
                               !.user = r.message, !.assistant = row]
    /\ nextMsgId' = nextMsgId + 1
    /\ req' = [req EXCEPT ![w] = Idle]
    /\ UNCHANGED <<API_KEY, conversations, nextConvId, served, adapter, accepted>>

Step(w) ==
    \/ persist_user(w)
    \/ load_history(w)
    \/ call_llm(w)
    \/ persist_assistant(w)

Receive(w, conc) ==
    \/ \E t \in Titles : create_conversation(w, conc, t)
    \/ \E id \in CIds : read_conversation(w, conc, id)
    \/ \E id \in CIds : delete_conversation(w, conc, id)
    \/ \E id \in CIds : read_conversation_messages(w, conc, id)
    \/ \E id \in CIds, role \in Roles, content \in Contents, body_cid \in BodyCids :
          create_message(w, conc, id, role, content, body_cid)

\* One request at a time, each handled to its end by the worker that took it.
Next == \E w \in {1} : Receive(w, FALSE) \/ Step(w)

\* The requests of the workers interleave: conversations are created, posted
\* to and deleted.  The posts are those of a chat client: role "user", no
\* conversation_id in the body.
NextConc ==
    \E w \in Workers :
        \/ create_conversation(w, TRUE, None)
        \/ \E id \in CIds : delete_conversation(w, TRUE, id)
        \/ \E id \in CIds, content \in Contents :
              create_message(w, TRUE, id, "user", content, 0)
        \/ Step(w)

\* The same without deletes.
NextPosts ==
    \E w \in Workers :
        \/ create_conversation(w, TRUE, None)
        \/ \E id \in CIds, content \in Contents :
              create_message(w, TRUE, id, "user", content, 0)
        \/ Step(w)

Spec == Init /\ [][Next]_vars
SpecConc == Init /\ [][NextConc]_vars
SpecPosts == Init /\ [][NextPosts]_vars

\* ---------------------------------------------------------------- claims
AllIdle == \A w \in Workers : req[w].pc = "idle"

MessagesOf(id) == {m \in messages : m.conversation_id = id}

\* C1: a post to an existing conversation never fails, whatever the LLM
\* adapter did: the response carries the user message and one assistant
\* message, both stored under the conversation, the assistant row being the
\* only one written after the user row; when the adapter raised, the
\* assistant content is "[LLM error] " followed by the error text.
C1_LLMFailureAbsorbed ==
    (AllIdle /\ last.op = "create_message") =>
        IF last.status = 404
        THEN ~Exists(conversations, last.conversation_id)
        ELSE /\ last.status = 200
             /\ last.user \in messages
             /\ last.assistant \in messages
             /\ last.assistant.role = "assistant"
             /\ last.assistant.conversation_id = last.conversation_id
             /\ last.user.conversation_id = last.conversation_id
             /\ {m \in MessagesOf(last.conversation_id) :
                    m.created_at > last.user.created_at} = {last.assistant}
             /\ (API_KEY /\ adapter.outcome = "raise")
                    => last.assistant.content = "[LLM error] Connection error."
             /\ (API_KEY /\ adapter.outcome = "raw")
                    => last.assistant.content = RawDump
             /\ (API_KEY /\ adapter.outcome \in {"attr", "mapping"})
                    => last.assistant.content = ReplyText

C1_Witness ==
    /\ AllIdle
    /\ last.op = "create_message"
    /\ last.status = 200
    /\ API_KEY
    /\ adapter.outcome = "raise"
    /\ last.assistant.content = "[LLM error] Connection error."

\* The requests that address a conversation by id.
AddressedOps == {"read_conversation", "delete_conversation",
                 "read_conversation_messages", "create_message"}

\* A step that answers 404 changes nothing; a request addressing a missing
\* conversation is answered 404; a post is accepted only for a stored one.
C2_NotFoundStep ==
    /\ (/\ last'.seq # last.seq
        /\ last'.op \in AddressedOps
        /\ ~Exists(conversations, last'.conversation_id))
           => last'.status = 404
    /\ (last'.seq # last.seq /\ last'.status = 404)
           => (store' = store /\ adapter' = adapter /\ req' = req)
    /\ \A w \in Workers :
          (req[w].pc = "idle" /\ req'[w].pc # "idle")
             => Exists(conversations, req'[w].conversation_id)

\* C2: a request addressing a conversation id that does not exist is
\* answered 404 and changes neither the store nor the adapter's call count,
\* and a post is only accepted for a conversation that exists.
C2_NotFoundNoEffect == [][C2_NotFoundStep]_vars

C2_Witness ==
    /\ last.op = "create_message"
    /\ last.status = 404
    /\ messages # {}
    /\ conversations # << >>
    /\ ~Exists(conversations, last.conversation_id)

\* Every text create_message can store as the assistant reply.
AssistantTexts == {ReplyText, RawDump, "[LLM error] Connection error.",
                   "[LLM not configured]"}

\* C3: a listing returns, for a conversation that n posts were made to, 2n
\* messages in the order they were appended: user message, its assistant
\* reply, the next user message, its reply, and so on.
C3_HistoryInInsertionOrder ==
    (AllIdle /\ last.op = "read_conversation_messages" /\ last.status = 200) =>
        LET L == last.messages
            n == accepted[last.conversation_id]
        IN /\ Len(L) = 2 * n
           /\ \A i \in 1 .. Len(L) : L[i] \in MessagesOf(last.conversation_id)
           /\ \A i \in 1 .. Len(L) - 1 : L[i].id < L[i + 1].id
           /\ \A i \in 1 .. n :
                 /\ L[2 * i - 1].content \in Contents
                 /\ L[2 * i].role = "assistant"
                 /\ L[2 * i].content \in AssistantTexts

C3_Witness ==
    /\ AllIdle
    /\ last.op = "read_conversation_messages"
    /\ last.status = 200
    /\ Len(last.messages) = 4
    /\ accepted[last.conversation_id] = 2

\* f"Conversation {id}", written out.
ExpectedDefaultTitle ==
    <<"Conversation 1", "Conversation 2", "Conversation 3", "Conversation 4",
      "Conversation 5", "Conversation 6", "Conversation 7", "Conversation 8">>

\* C5: create_conversation returns the stored record, whose id the store
\* assigned and whose title is the supplied one when it is not empty, and
\* "Conversation <id>" when it is absent or empty.
C5_TitleResolved ==
    (last.op = "create_conversation") =>
        LET c == last.conversation
        IN /\ last.status = 200
           /\ c.id = nextConvId - 1
           /\ c.id \in 1 .. Len(ExpectedDefaultTitle)
           /\ (last.supplied \notin {None, ""}) => c.title = last.supplied
           /\ (last.supplied \in {None, ""}) => c.title = ExpectedDefaultTitle[c.id]
           /\ AllIdle => (Exists(conversations, c.id) /\ conversations[c.id] = c.title)

C5_Witness ==
    /\ last.op = "create_conversation"
    /\ last.supplied = ""
    /\ last.conversation = [id |-> 2, title |-> "Conversation 2"]
    /\ Exists(conversations, 1)
    /\ conversations[1] = "Trip"

C7_RoleCoercedInPayloadOnly ==
    /\ \A w \in Workers :
          req[w].pc \in {"call_llm", "persist_assistant"} =>
              LET h == req[w].history
                  p == req[w].llm_messages
              IN /\ req[w].message.role = req[w].body.role
                 /\ req[w].message \in messages
                 /\ Len(p) = Len(h)
                 /\ \A i \in 1 .. Len(h) :
                       /\ h[i] \in messages
                       /\ h[i].role \in {"user", "assistant"} => p[i].role = h[i].role
                       /\ h[i].role \notin {"user", "assistant"} => p[i].role = "user"
                 /\ (req[w].pc = "persist_assistant" /\ API_KEY) => adapter.payload = p
    /\ (AllIdle /\ last.op = "create_message" /\ last.status = 200) =>
          /\ last.user.role = last.supplied
          /\ last.user \in messages

C7_Witness ==
    \E w \in Workers :
        /\ req[w].pc = "persist_assistant"
        /\ API_KEY
        /\ req[w].body.role = "system"
        /\ req[w].message.role = "system"
        /\ req[w].message \in messages
        /\ Len(adapter.payload) = 3
        /\ req[w].history[1].role = "system"
        /\ adapter.payload[1].role = "user"
        /\ adapter.payload[2].role = "assistant"
        /\ adapter.payload[3].role = "user"

\* C8: with no key configured the adapter is never called, and every post
\* to an existing conversation stores and returns the user message and an
\* assistant message whose content is "[LLM not configured]".
C8_NotConfiguredPlaceholder ==
    (~API_KEY) =>
        /\ adapter.calls = 0
        /\ \A w \in Workers :
              req[w].pc = "persist_assistant"
                  => req[w].assistant_text = "[LLM not configured]"
        /\ (last.op = "create_message" /\ last.status = 200) =>
              /\ last.assistant.content = "[LLM not configured]"
              /\ last.assistant.role = "assistant"
              /\ AllIdle => (last.user \in messages /\ last.assistant \in messages)

C8_Witness ==
    /\ ~API_KEY
    /\ AllIdle
    /\ last.op = "create_message"
    /\ last.status = 200
    /\ last.user \in messages
    /\ last.assistant.content = "[LLM not configured]"

\* C9: the payload for the adapter is the history of the addressed
\* conversation and of no other: one entry per stored message of it, in
\* created_at order, the message just posted among them, stored under the id
\* of the path whatever conversation_id the body carried.
C9_PayloadIsConversationHistory ==
    \A w \in Workers :
        /\ req[w].pc = "call_llm" =>
              LET h == req[w].history
                  p == req[w].llm_messages
                  cid == req[w].conversation_id
              IN /\ {h[i] : i \in 1 .. Len(h)} = MessagesOf(cid)
                 /\ Len(h) = Cardinality(MessagesOf(cid))
                 /\ \A i \in 1 .. Len(h) - 1 : h[i].created_at < h[i + 1].created_at
                 /\ req[w].message.conversation_id = cid
                 /\ req[w].message \in {h[i] : i \in 1 .. Len(h)}
                 /\ Len(p) = Len(h)
                 /\ \A i \in 1 .. Len(h) : p[i].content = h[i].content
        /\ (req[w].pc = "persist_assistant" /\ API_KEY)
              => adapter.payload = req[w].llm_messages

C9_Witness ==
    \E w \in Workers :
        /\ req[w].pc = "call_llm"
        /\ req[w].body.conversation_id \notin {0, req[w].conversation_id}
        /\ MessagesOf(req[w].body.conversation_id) # {}
        /\ Len(req[w].llm_messages) = 1

\* Every row a step adds to Message names a conversation that exists.
C4_PersistStep ==
    \A m \in messages' \ messages : Exists(conversations, m.conversation_id)

\* C4: a message is only ever persisted under a conversation that exists at
\* that moment, also when a delete of the conversation commits between the
\* lookup of create_message and one of its two writes.
C4_MessageOwnerExists == [][C4_PersistStep]_vars

\* The place of x in seq from place i on, 0 when it is not there.
RECURSIVE IndexOf(_, _, _)
IndexOf(seq, x, i) ==
    IF i > Len(seq) THEN 0
    ELSE IF seq[i] = x THEN i ELSE IndexOf(seq, x, i + 1)

\* The writes to conversation id that the request of worker w still owes.
Unwritten(w, id) ==
    IF req[w].conversation_id # id THEN 0
    ELSE IF req[w].pc = "persist_user" THEN 2
    ELSE IF req[w].pc \in {"load_history", "call_llm", "persist_assistant"} THEN 1
    ELSE 0

\* C10: with posts to a conversation interleaving, every accepted post can
\* run to its end, a conversation holds two messages per finished post (and
\* one of a post that has written its user message only), and the reply of a
\* post is ordered after that post's own user message in the history.
C10_ConcurrentPosts ==
    /\ \A w \in Workers : req[w].pc # "idle" => ENABLED Step(w)
    /\ \A id \in DOMAIN conversations :
          Cardinality(MessagesOf(id)) + Unwritten(1, id) + Unwritten(2, id)
              = 2 * accepted[id]
    /\ \A w \in Workers :
          req[w].pc \in {"load_history", "call_llm", "persist_assistant"}
              => req[w].message \in MessagesOf(req[w].conversation_id)
    /\ (last.op = "create_message" /\ last.status = 200) =>
          LET L == SelectMessages(messages, last.conversation_id)
          IN /\ IndexOf(L, last.user, 1) >= 1
             /\ IndexOf(L, last.user, 1) < IndexOf(L, last.assistant, 1)

C10_Witness ==
    /\ AllIdle
    /\ last.op = "create_message"
    /\ last.status = 200
    /\ accepted[last.conversation_id] = 2
    /\ LET L == SelectMessages(messages, last.conversation_id)
       IN /\ Len(L) = 4
          /\ L[1].content \in Contents
          /\ L[2].content \in Contents
          /\ L[3].content \in AssistantTexts
          /\ L[4] = last.assistant
          /\ L[1] = last.user
====
